---- MODULE Spec2Model ----
(***************************************************************************)
(* E-learning microservice platform: the analytics service's event         *)
(* recorder, daily-metric store and cached read path, and the course       *)
(* service's enrollment store.                                             *)
(*                                                                         *)
(* Every request runs in its own SQLAlchemy session (autoflush=False) on   *)
(* PostgreSQL at READ COMMITTED.  A handler's SELECT sees the rows that    *)
(* are committed at that moment; the ORM objects it loads keep the values  *)
(* read; db.commit() flushes the pending INSERTs and UPDATEs (an UPDATE    *)
(* carries the absolute values of the attributes the handler changed) and  *)
(* commits them in one transaction.  Each worker p serves one request at a *)
(* time; pc[p] is the handler's position.  The analytics handlers never    *)
(* compare primary keys, so the analytics tables are bags of rows without  *)
(* them; the course service's rows keep their ids.                         *)
(***************************************************************************)
EXTENDS Integers, Sequences, FiniteSets, Bags, TLC

\* ---------------------------------------------------------------- bounds
NumWorkers == 2
MaxCalls == 2
MaxSeqCalls == 2
LastDay == 2
MaxLimit == 2
MaxEnrollCalls == 2
MaxEnrollSeqCalls == 3
MaxLessonCalls == 3
MaxAccessCalls == 2
MaxRaceCalls == 2

Workers == 1..NumWorkers
Days == 1..LastDay
Limits == 1..MaxLimit
Courses == {"c1", "c2"}
UserIds == {"u1"}

\* ------------------------------------------------ analytics: the types
\* EventType
course_view == "course_view"
course_enroll == "course_enroll"
EventType == {course_view, course_enroll}

\* UserRole: the members of the user_role_enum column type
UserRole == {"learner", "instructor"}

\* The roles the platform's tokens carry (valid_roles); decode_jwt hands the
\* role claim to the handler unchanged.
TokenRoles == {"student", "instructor", "admin"}

None == "None"

\* Cache keys
top_courses_key == "top_courses"
course_metrics_key(course_id) == "course_metrics:" \o course_id
CacheKeys == {top_courses_key} \cup {course_metrics_key(c) : c \in Courses}

VARIABLES
  today,         \* date.today()
  metrics,       \* table course_daily_metrics (committed rows)
  events,        \* table analytics_events (committed rows)
  cache,         \* the Redis keys: key -> [present, data]
  redis_client,  \* module global of core/redis.py: None or "client"
  redis_up,      \* whether the Redis server answers
  delete_errors, \* keys for which "Redis delete error" was logged
  calls,         \* requests still to arrive
  pc,            \* per worker: position in the handler
  req,           \* per worker: the request being served
  db_event,      \* per worker: the AnalyticsEvent of record_event
  metric,        \* per worker: the CourseDailyMetric object of record_event
  result,        \* per worker: the list the store query returned
  response,      \* the response sent last: [status, body]
  enrollments,        \* course service: table enrollments (committed rows)
  lesson_progresses,  \* course service: table lesson_progress (committed rows)
  course_rows,        \* course service: table courses, course id -> row
  next_id,            \* course service: the next value uuid.uuid4 gives
  lessons,            \* course service: table lessons
  listing,            \* course service: the last get_courses request and its items
  session,            \* course service, per worker: the request and the
                      \* objects its session holds
  outcome             \* course service: what the last call returned

courseVars == <<enrollments, lesson_progresses, course_rows, next_id, lessons, listing, session,
                outcome>>

vars == <<today, metrics, events, cache, redis_client, redis_up, delete_errors,
          calls, pc, req, db_event, metric, result, response, courseVars>>

\* ---------------------------------------------------- analytics: store
NoReq == [op |-> "none", course_id |-> "c1", limit |-> 1]
NoEvent == [event_type |-> course_view, user_id |-> "u1",
            course_id |-> "c1", user_role |-> "instructor", day |-> 1]
NoMetric == [course_id |-> "c1", metric_date |-> 1,
             views_count |-> 0, enrollments_count |-> 0, is_new |-> FALSE]
Miss == [present |-> FALSE, data |-> <<>>]
Entry(value) == [present |-> TRUE, data |-> value]
Response(status, r, body) == [status |-> status, req |-> r, body |-> body]

\* A table row of course_daily_metrics from the ORM object.
MetricRow(m) == [course_id |-> m.course_id, metric_date |-> m.metric_date,
                 views_count |-> m.views_count,
                 enrollments_count |-> m.enrollments_count]

\* The ORM object loaded from a table row.
Loaded(r) == [course_id |-> r.course_id, metric_date |-> r.metric_date,
              views_count |-> r.views_count,
              enrollments_count |-> r.enrollments_count, is_new |-> FALSE]

\* CourseDailyMetric(course_id, metric_date, views_count=0, enrollments_count=0)
CourseDailyMetric(course_id, day) ==
  [course_id |-> course_id, metric_date |-> day,
   views_count |-> 0, enrollments_count |-> 0, is_new |-> TRUE]

\* db.query(CourseDailyMetric).filter(course_id, metric_date): the matching rows.
MetricsFor(rows, course_id, day) ==
  {r \in BagToSet(rows) : r.course_id = course_id /\ r.metric_date = day}

\* The unique constraint uix_course_metric_date, as checked on INSERT.
UniqueViolationNever(rows, row) == FALSE
UniqueViolation(rows, row) ==
  MetricsFor(rows, row.course_id, row.metric_date) # {}

\* The Enum bind processor of the user_role column rejects other strings.
RoleAccepted(role) == role \in UserRole

\* Increment the specific metric based on event type.
IncrementBoth(m, event_type) ==
  [m EXCEPT !.views_count = @ + 1, !.enrollments_count = @ + 1]
Increment(m, event_type) ==
  IF event_type = course_view
    THEN [m EXCEPT !.views_count = @ + 1]
    ELSE IF event_type = course_enroll
      THEN [m EXCEPT !.enrollments_count = @ + 1]
      ELSE m

\* The flush of the metric object: INSERT of a new row, or UPDATE ... SET of the
\* one attribute the handler assigned, on the row the object was loaded from.
FlushMetric(rows, m, event_type) ==
  IF m.is_new
    THEN rows (+) SetToBag({MetricRow(m)})
    ELSE LET old == CHOOSE r \in MetricsFor(rows, m.course_id, m.metric_date) : TRUE
             new == IF event_type = course_view
                      THEN [old EXCEPT !.views_count = m.views_count]
                      ELSE [old EXCEPT !.enrollments_count = m.enrollments_count]
         IN (rows (-) SetToBag({old})) (+) SetToBag({new})

\* What the flush inside db.commit() raises, if anything: a role that is no
\* value of user_role_enum is refused (by the Enum type or by PostgreSQL), a
\* second row of a (course_id, metric_date) violates uix_course_metric_date.
FlushError(p) ==
  IF ~RoleAccepted(db_event[p].user_role) THEN "DataError"
  ELSE IF metric[p].is_new /\ UniqueViolation(metrics, metric[p])
    THEN "IntegrityError"
    ELSE "none"

\* analytics_events after db.commit(): the pending INSERT is part of the same
\* transaction as the metric write.
EventsKeptOnError(p, err) == events (+) SetToBag({db_event[p]})
EventsAfterCommit(p, err) ==
  IF err = "none" THEN events (+) SetToBag({db_event[p]}) ELSE events

\* ---------------------------------------------------- analytics: cache
\* Whether the call on redis_client raises.
RedisRaises == redis_client # None /\ ~redis_up

\* get_cache: None without a client or when the call raises.
get_cache(key) ==
  IF redis_client = None THEN [value |-> Miss, raised |-> FALSE]
  ELSE IF RedisRaises THEN [value |-> Miss, raised |-> FALSE]
  ELSE [value |-> cache[key], raised |-> FALSE]

\* set_cache: the keys afterwards.
set_cache(key, value) ==
  IF redis_client = None THEN [keys |-> cache, raised |-> FALSE]
  ELSE IF RedisRaises THEN [keys |-> cache, raised |-> FALSE]
  ELSE [keys |-> [cache EXCEPT ![key] = Entry(value)], raised |-> FALSE]

\* delete_cache: the keys afterwards.
delete_cache_unguarded(key) ==
  IF redis_client = None THEN [keys |-> cache, raised |-> FALSE]
  ELSE IF RedisRaises THEN [keys |-> cache, raised |-> TRUE]
  ELSE [keys |-> [cache EXCEPT ![key] = Miss], raised |-> FALSE]
delete_cache_noop(key) == [keys |-> cache, raised |-> FALSE]
delete_cache(key) ==
  IF redis_client = None THEN [keys |-> cache, raised |-> FALSE]
  ELSE IF RedisRaises THEN [keys |-> cache, raised |-> FALSE]
  ELSE [keys |-> [cache EXCEPT ![key] = Miss], raised |-> FALSE]

\* logger.error in delete_cache's except branch.
DeleteLogged(key) ==
  IF RedisRaises THEN delete_errors \cup {key} ELSE delete_errors

\* `if cached_data:` an absent key and an empty list both count as a miss.
Truthy(entry) == entry.present /\ entry.data # <<>>

\* ---------------------------------------------------- analytics: reads
RECURSIVE SumOf(_, _, _)
\* func.sum of the named counter over the rows in the set rs of the bag rows.
SumOf(rows, rs, col) ==
  IF rs = {} THEN 0
  ELSE LET r == CHOOSE x \in rs : TRUE
       IN CopiesIn(r, rows)
            * (IF col = "views" THEN r.views_count ELSE r.enrollments_count)
          + SumOf(rows, rs \ {r}, col)

RowsOf(rows, course_id) == {r \in BagToSet(rows) : r.course_id = course_id}
CoursesWithMetrics(rows) == {r.course_id : r \in BagToSet(rows)}
Min(a, b) == IF a < b THEN a ELSE b

\* DailyMetricResponse: the four fields of a row that are serialized.
DailyMetricResponse(r) ==
  [course_id |-> r.course_id, metric_date |-> r.metric_date,
   views_count |-> r.views_count, enrollments_count |-> r.enrollments_count]

\* TopCourseResponse of one group of the GROUP BY course_id.
TopCourseResponse(rows, course_id) ==
  [course_id |-> course_id,
   total_views |-> SumOf(rows, RowsOf(rows, course_id), "views"),
   total_enrollments |-> SumOf(rows, RowsOf(rows, course_id), "enrollments")]

\* The sequences without repetition of length k over S.
Arrangements(S, k) ==
  {s \in [1..k -> S] : \A i, j \in 1..k : i # j => s[i] # s[j]}

\* The results the course-metrics query may return: the rows of the course,
\* ORDER BY metric_date DESC.
CourseMetricsQuery(rows, course_id) ==
  LET mine == RowsOf(rows, course_id)
      n == Cardinality(mine)
  IN {[i \in 1..n |-> DailyMetricResponse(s[i])] :
        s \in {t \in Arrangements(mine, n) :
                 \A i, j \in 1..n : i < j => t[i].metric_date >= t[j].metric_date}}

\* The results the top-courses query may return: GROUP BY course_id,
\* ORDER BY sum(views_count) DESC, LIMIT limit (ties in any order).
TopCoursesQuery(rows, limit) ==
  LET cs == CoursesWithMetrics(rows)
      k == Min(limit, Cardinality(cs))
      tv(c) == SumOf(rows, RowsOf(rows, c), "views")
  IN {[i \in 1..k |-> TopCourseResponse(rows, s[i])] :
        s \in {t \in Arrangements(cs, k) :
                 /\ \A i, j \in 1..k : i < j => tv(t[i]) >= tv(t[j])
                 /\ \A c \in cs \ {t[i] : i \in 1..k} :
                      \A i \in 1..k : tv(t[i]) >= tv(c)}}

\* cached_data[:limit]
Slice(data, limit) == SubSeq(data, 1, Min(limit, Len(data)))

\* ------------------------------------------------ analytics: handlers
localVars == <<req, db_event, metric, result>>
storeVars == <<metrics, events>>
cacheVars == <<cache, delete_errors>>
envVars == <<today, redis_client, redis_up>>

\* The handler of worker p ends: its session and locals are gone.
Return(p, status, body) ==
  /\ response' = Response(status, req[p], body)
  /\ pc' = [pc EXCEPT ![p] = "idle"]
  /\ req' = [req EXCEPT ![p] = NoReq]
  /\ db_event' = [db_event EXCEPT ![p] = NoEvent]
  /\ metric' = [metric EXCEPT ![p] = NoMetric]
  /\ result' = [result EXCEPT ![p] = <<>>]

\* record_event up to db.commit(): the AnalyticsEvent is added to the session,
\* the day's metric row is selected (or a new object made) and the counter of
\* the event's type is incremented on the object.
record_event(p) ==
  /\ pc[p] = "idle"
  /\ calls > 0
  /\ \E event_type \in EventType, course_id \in Courses,
        user_id \in UserIds, role \in TokenRoles :
       LET found == MetricsFor(metrics, course_id, today)
       IN /\ req' = [req EXCEPT ![p] = [NoReq EXCEPT !.op = event_type,
                                                     !.course_id = course_id]]
          /\ db_event' = [db_event EXCEPT ![p] =
                            [event_type |-> event_type, user_id |-> user_id,
                             course_id |-> course_id, user_role |-> role,
                             day |-> today]]
          /\ \E m \in (IF found = {} THEN {CourseDailyMetric(course_id, today)}
                       ELSE {Loaded(r) : r \in found}) :
               metric' = [metric EXCEPT ![p] = Increment(m, event_type)]
  /\ calls' = calls - 1
  /\ pc' = [pc EXCEPT ![p] = "commit"]
  /\ UNCHANGED <<courseVars, result, response, storeVars, cacheVars, envVars>>

\* db.commit(): flush and commit in one transaction, or raise and leave the
\* tables as they were (the session is closed by get_db, which rolls back).
record_event_commit(p) ==
  /\ pc[p] = "commit"
  /\ LET err == FlushError(p)
     IN /\ events' = EventsAfterCommit(p, err)
        /\ metrics' = IF err = "none"
                        THEN FlushMetric(metrics, metric[p], db_event[p].event_type)
                        ELSE metrics
        /\ IF err = "none"
             THEN /\ pc' = [pc EXCEPT ![p] = "del_top"]
                  /\ metric' = [metric EXCEPT ![p] = NoMetric]
                  /\ UNCHANGED <<req, db_event, result, response>>
             ELSE Return(p, err, <<>>)
  /\ UNCHANGED <<courseVars, calls, cacheVars, envVars>>

\* delete_cache("top_courses")
record_event_invalidate_top(p) ==
  /\ pc[p] = "del_top"
  /\ LET d == delete_cache(top_courses_key)
     IN /\ cache' = d.keys
        /\ delete_errors' = DeleteLogged(top_courses_key)
        /\ IF d.raised
             THEN Return(p, "RedisError", <<>>)
             ELSE /\ pc' = [pc EXCEPT ![p] = "del_course"]
                  /\ UNCHANGED <<localVars, response>>
  /\ UNCHANGED <<courseVars, calls, storeVars, envVars>>

\* delete_cache(f"course_metrics:{course_id}"), db.refresh(db_event), return
record_event_invalidate_course(p) ==
  /\ pc[p] = "del_course"
  /\ LET d == delete_cache(course_metrics_key(req[p].course_id))
     IN /\ cache' = d.keys
        /\ delete_errors' = DeleteLogged(course_metrics_key(req[p].course_id))
        /\ IF d.raised
             THEN Return(p, "RedisError", <<>>)
             ELSE Return(p, "ok", <<db_event[p]>>)
  /\ UNCHANGED <<courseVars, calls, storeVars, envVars>>

\* The cache lookup that opens both read handlers: a hit returns at once.
Lookup(p, r, key) ==
  /\ pc[p] = "idle"
  /\ calls > 0
  /\ calls' = calls - 1
  /\ LET g == get_cache(key)
     IN IF g.raised
          THEN /\ response' = Response("RedisError", r, <<>>)
               /\ UNCHANGED <<pc, req>>
          ELSE IF Truthy(g.value)
            THEN /\ response' = Response("hit", r, IF r.op = "top_courses"
                                                     THEN Slice(g.value.data, r.limit)
                                                     ELSE g.value.data)
                 /\ UNCHANGED <<pc, req>>
            ELSE /\ pc' = [pc EXCEPT ![p] = "query"]
                 /\ req' = [req EXCEPT ![p] = r]
                 /\ UNCHANGED response
  /\ UNCHANGED <<courseVars, db_event, metric, result, storeVars, cacheVars, envVars>>

\* get_course_metrics up to the cache lookup: a hit returns the cached list.
get_course_metrics(p) ==
  \E course_id \in Courses :
    Lookup(p, [NoReq EXCEPT !.op = "course_metrics", !.course_id = course_id],
           course_metrics_key(course_id))

\* get_top_courses up to the cache lookup: a hit returns cached_data[:limit].
get_top_courses(p) ==
  \E limit \in Limits :
    Lookup(p, [NoReq EXCEPT !.op = "top_courses", !.limit = limit],
           top_courses_key)

\* The store query of get_course_metrics.
get_course_metrics_query(p) ==
  /\ pc[p] = "query"
  /\ req[p].op = "course_metrics"
  /\ \E rows \in CourseMetricsQuery(metrics, req[p].course_id) :
       result' = [result EXCEPT ![p] = rows]
  /\ pc' = [pc EXCEPT ![p] = "set"]
  /\ UNCHANGED <<courseVars, calls, req, db_event, metric, response, storeVars, cacheVars, envVars>>

\* The store query of get_top_courses.
get_top_courses_query(p) ==
  /\ pc[p] = "query"
  /\ req[p].op = "top_courses"
  /\ \E rows \in TopCoursesQuery(metrics, req[p].limit) :
       result' = [result EXCEPT ![p] = rows]
  /\ pc' = [pc EXCEPT ![p] = "set"]
  /\ UNCHANGED <<courseVars, calls, req, db_event, metric, response, storeVars, cacheVars, envVars>>

\* set_cache(cache_key, ...) and the return of either read handler.
StoreInCache(p, key) ==
  /\ pc[p] = "set"
  /\ LET s == set_cache(key, result[p])
     IN /\ cache' = s.keys
        /\ IF s.raised
             THEN Return(p, "RedisError", <<>>)
             ELSE Return(p, "miss", result[p])
  /\ UNCHANGED <<courseVars, calls, delete_errors, storeVars, envVars>>

get_course_metrics_store(p) ==
  /\ req[p].op = "course_metrics"
  /\ StoreInCache(p, course_metrics_key(req[p].course_id))

get_top_courses_store(p) ==
  /\ req[p].op = "top_courses"
  /\ StoreInCache(p, top_courses_key)

\* ---------------------------------------------- analytics: environment
\* The calendar day changes.
Midnight ==
  /\ today < LastDay
  /\ today' = today + 1
  /\ UNCHANGED <<courseVars, redis_client, redis_up, calls, pc, localVars, response,
                 storeVars, cacheVars>>

\* The Redis server becomes unreachable, or reachable again.
RedisOutage ==
  /\ redis_client # None
  /\ redis_up' = ~redis_up
  /\ UNCHANGED <<courseVars, today, redis_client, calls, pc, localVars, response,
                 storeVars, cacheVars>>

\* A key written by setex reaches its TTL.
Expire ==
  /\ \E key \in CacheKeys :
       /\ cache[key].present
       /\ cache' = [cache EXCEPT ![key] = Miss]
  /\ UNCHANGED <<courseVars, delete_errors, envVars, calls, pc, localVars, response, storeVars>>

Recorder(p) ==
  \/ record_event(p)
  \/ record_event_commit(p)
  \/ record_event_invalidate_top(p)
  \/ record_event_invalidate_course(p)

Reader(p) ==
  \/ get_course_metrics(p)
  \/ get_course_metrics_query(p)
  \/ get_course_metrics_store(p)
  \/ get_top_courses(p)
  \/ get_top_courses_query(p)
  \/ get_top_courses_store(p)

\* ------------------------------------------- course service: the tables
Students == {"u1", "u2"}
LessonIds == {"l1", "l2"}

\* Table lessons: c1 has the two lessons, both published; c2 has none.
Lessons == {[id |-> l, course_id |-> "c1", is_published |-> TRUE] : l \in LessonIds}

\* The callers of the course service besides the students: the instructors
\* of the courses, an admin, and a guest (no credentials: current_user None).
Instructors == {"i1", "i2"}
Admins == {"a1"}
Role(user_id) ==
  IF user_id \in Students THEN "student"
  ELSE IF user_id \in Instructors THEN "instructor" ELSE "admin"

\* Table courses: c1 belongs to instructor i1 and c2 to i2.
Owner(course_id) == IF course_id = "c1" THEN "i1" ELSE "i2"
Course(course_id, published, total_enrollments) ==
  [total_enrollments |-> total_enrollments, published |-> published,
   instructor_id |-> Owner(course_id)]

NoListing == [current_user |-> None, published |-> None, instructor_id |-> None,
              items |-> {}]

\* time_spent_minutes: Optional[int] = None; NoTime stands for None.
NoTime == -1
TimeSpent == {NoTime, 0, 1}

\* Enrollment(user_id, course_id) with the column defaults; progress_percentage
\* is kept in hundredths of a percent.
Enrollment(id, user_id, course_id) ==
  [id |-> id, user_id |-> user_id, course_id |-> course_id,
   progress_percentage |-> 0, completed |-> FALSE, completed_at |-> None,
   total_time_spent_minutes |-> 0, last_lesson_id |-> None]

NoEnrollment == Enrollment(0, "u1", "c1")
NoProgress == [enrollment_id |-> 0, lesson_id |-> "l1", completed |-> FALSE,
               completed_at |-> None, time_spent_minutes |-> 0]
NoSession ==
  [op |-> "none", user_id |-> "u1", course_id |-> "c1", enrollment_id |-> 0,
   lesson_id |-> "l1", completed |-> FALSE, time_spent_minutes |-> NoTime,
   enrollment |-> NoEnrollment, enrollment_loaded |-> NoEnrollment,
   progress |-> NoProgress, progress_loaded |-> NoProgress, is_new |-> FALSE,
   total_enrollments |-> 0, course_changed |-> FALSE]

Outcome(status, enrollment_id, user_id, course_id) ==
  [status |-> status, enrollment_id |-> enrollment_id, user_id |-> user_id,
   course_id |-> course_id]

get_none(rows, enrollment_id) == {}

\* CRUDEnrollment.get
get(rows, enrollment_id) == {e \in rows : e.id = enrollment_id}

get_by_user_and_course_none(rows, user_id, course_id) == {}

\* CRUDEnrollment.get_by_user_and_course
get_by_user_and_course(rows, user_id, course_id) ==
  {e \in rows : e.user_id = user_id /\ e.course_id = course_id}

\* CRUDLessonProgress.get_lesson_progress
get_lesson_progress(rows, enrollment_id, lesson_id) ==
  {r \in rows : r.enrollment_id = enrollment_id /\ r.lesson_id = lesson_id}

EnrollmentUniqueViolationNever(rows, user_id, course_id) == FALSE

\* unique_user_course_enrollment rejects a second row of the pair.
EnrollmentUniqueViolation(rows, user_id, course_id) ==
  get_by_user_and_course(rows, user_id, course_id) # {}

\* round((completed_lessons / total_lessons) * 100, 2), in hundredths
Percentage(completed_lessons, total_lessons) ==
  (20000 * completed_lessons + total_lessons) \div (2 * total_lessons)

update_progress_reset(e, total_lessons, completed_lessons) ==
  LET pct == IF total_lessons > 0
               THEN Percentage(completed_lessons, total_lessons) ELSE 0
  IN [e EXCEPT !.progress_percentage = pct,
               !.completed = (pct >= 10000),
               !.completed_at = IF pct >= 10000 THEN "set" ELSE None]

\* Enrollment.update_progress
update_progress(e, total_lessons, completed_lessons) ==
  IF total_lessons > 0
    THEN LET pct == Percentage(completed_lessons, total_lessons)
         IN [e EXCEPT !.progress_percentage = pct,
                      !.completed = (pct >= 10000),
                      !.completed_at = IF pct >= 10000 THEN "set" ELSE None]
    ELSE e

\* db.query(Lesson).filter(course_id, is_published == True).count()
TotalLessons(course_id) ==
  Cardinality({l \in lessons : l.course_id = course_id /\ l.is_published})

\* db.query(LessonProgress).filter(enrollment_id, completed == True).count()
CompletedLessons(rows, enrollment_id) ==
  Cardinality({r \in rows : r.enrollment_id = enrollment_id /\ r.completed})

AddTimeNever(total, time_spent_minutes) == total

\* if time_spent_minutes: enrollment.total_time_spent_minutes += time_spent_minutes
AddTime(total, time_spent_minutes) ==
  IF time_spent_minutes \notin {NoTime, 0} THEN total + time_spent_minutes ELSE total

\* The UPDATE of a flush: the columns the handler changed on the object since
\* it was loaded, written onto the row as it is now.
Flushed(row, obj, loaded) ==
  [f \in DOMAIN row |-> IF obj[f] # loaded[f] THEN obj[f] ELSE row[f]]

\* ----------------------------------------- course service: the handlers
Answer(p, user_id, course_id, status, enrollment_id) ==
  /\ outcome' = Outcome(status, enrollment_id, user_id, course_id)
  /\ pc' = [pc EXCEPT ![p] = "idle"]
  /\ session' = [session EXCEPT ![p] = NoSession]

Leave(p, status, enrollment_id) ==
  Answer(p, session[p].user_id, session[p].course_id, status, enrollment_id)

analyticsVars == <<today, metrics, events, cache, redis_client, redis_up,
                   delete_errors, req, db_event, metric, result, response>>

\* require_role(["student"]), the dependency of enroll_in_course: a caller
\* with another role is answered 403 before the handler runs.
role_checker(p) ==
  /\ pc[p] = "idle"
  /\ calls > 0
  /\ calls' = calls - 1
  /\ \E user_id \in Instructors \cup Admins, course_id \in Courses :
       /\ Role(user_id) \notin {"student"}
       /\ Answer(p, user_id, course_id, "403", 0)
  /\ UNCHANGED <<enrollments, lesson_progresses, course_rows, next_id, lessons,
                 listing, analyticsVars>>

\* enroll_in_course, for a caller that passed get_current_student: 404 when
\* there is no such course, 403 when it is not published and the caller is
\* neither instructor nor admin; an existing enrollment of the caller is
\* returned, otherwise crud.create is called.
enroll_in_course(p) ==
  /\ pc[p] = "idle"
  /\ calls > 0
  /\ calls' = calls - 1
  /\ \E user_id \in Students, course_id \in Courses :
       LET existing == get_by_user_and_course(enrollments, user_id, course_id)
       IN IF course_id \notin DOMAIN course_rows
            THEN Answer(p, user_id, course_id, "404", 0)
          ELSE IF /\ ~course_rows[course_id].published
                  /\ Role(user_id) \notin {"instructor", "admin"}
            THEN Answer(p, user_id, course_id, "403", 0)
          ELSE IF existing # {}
            THEN \E e \in existing : Answer(p, user_id, course_id, "existing", e.id)
            ELSE /\ pc' = [pc EXCEPT ![p] = "create"]
                 /\ session' = [session EXCEPT ![p] =
                      [NoSession EXCEPT !.op = "enroll", !.user_id = user_id,
                                        !.course_id = course_id]]
                 /\ UNCHANGED outcome
  /\ UNCHANGED <<enrollments, lesson_progresses, course_rows, next_id, lessons, listing, analyticsVars>>

\* CRUDEnrollment.create: the check for an existing enrollment.
create(p) ==
  /\ pc[p] = "create"
  /\ LET existing == get_by_user_and_course(enrollments, session[p].user_id,
                                            session[p].course_id)
     IN IF existing # {}
          THEN \E e \in existing : Leave(p, "existing", e.id)
          ELSE /\ pc' = [pc EXCEPT ![p] = "insert"]
               /\ UNCHANGED <<session, outcome>>
  /\ UNCHANGED <<enrollments, lesson_progresses, course_rows, next_id, calls,
                 lessons, listing, analyticsVars>>

\* CRUDEnrollment.create: db.add(db_obj); db.commit(); db.refresh(db_obj).
\* An IntegrityError leaves through the except of enroll_in_course as a 500.
create_commit(p) ==
  /\ pc[p] = "insert"
  /\ IF EnrollmentUniqueViolation(enrollments, session[p].user_id, session[p].course_id)
       THEN /\ Leave(p, "500", 0)
            /\ UNCHANGED <<enrollments, next_id>>
       ELSE LET db_obj == Enrollment(next_id, session[p].user_id, session[p].course_id)
            IN /\ enrollments' = enrollments \cup {db_obj}
               /\ next_id' = next_id + 1
               /\ pc' = [pc EXCEPT ![p] = "course"]
               /\ session' = [session EXCEPT ![p].enrollment_id = db_obj.id,
                                             ![p].enrollment = db_obj]
               /\ UNCHANGED outcome
  /\ UNCHANGED <<lesson_progresses, course_rows, calls, lessons, listing, analyticsVars>>

\* CRUDEnrollment.create: the course is selected for its counter.
create_course(p) ==
  /\ pc[p] = "course"
  /\ session' = [session EXCEPT ![p].total_enrollments =
                   course_rows[session[p].course_id].total_enrollments + 1]
  /\ pc' = [pc EXCEPT ![p] = "count"]
  /\ UNCHANGED <<enrollments, lesson_progresses, course_rows, next_id, outcome,
                 calls, lessons, listing, analyticsVars>>

\* CRUDEnrollment.create: the commit of course.total_enrollments += 1.
create_course_commit(p) ==
  /\ pc[p] = "count"
  /\ course_rows' = [course_rows EXCEPT ![session[p].course_id].total_enrollments =
                       session[p].total_enrollments]
  /\ Leave(p, "created", session[p].enrollment_id)
  /\ UNCHANGED <<enrollments, lesson_progresses, next_id, calls, lessons, listing, analyticsVars>>

\* CRUDEnrollment.delete: self.get(db, enrollment_id); False when there is none.
delete(p) ==
  /\ pc[p] = "idle"
  /\ calls > 0
  /\ calls' = calls - 1
  /\ \E enrollment_id \in {e.id : e \in enrollments} \cup {0} :
       LET found == get(enrollments, enrollment_id)
       IN IF found = {}
            THEN Leave(p, "False", enrollment_id)
            ELSE \E e \in found :
                   /\ pc' = [pc EXCEPT ![p] = "delete_course"]
                   /\ session' = [session EXCEPT ![p] =
                        [NoSession EXCEPT !.op = "delete", !.user_id = e.user_id,
                                          !.course_id = e.course_id,
                                          !.enrollment_id = e.id,
                                          !.enrollment = e,
                                          !.enrollment_loaded = e]]
                   /\ UNCHANGED outcome
  /\ UNCHANGED <<enrollments, lesson_progresses, course_rows, next_id, lessons, listing, analyticsVars>>

\* CRUDEnrollment.delete: the course is selected and its counter decreased
\* on the object when it is positive.
delete_course(p) ==
  /\ pc[p] = "delete_course"
  /\ LET total == course_rows[session[p].course_id].total_enrollments
     IN session' = [session EXCEPT
                      ![p].total_enrollments = IF total > 0 THEN total - 1 ELSE total,
                      ![p].course_changed = (total > 0)]
  /\ pc' = [pc EXCEPT ![p] = "delete_commit"]
  /\ UNCHANGED <<enrollments, lesson_progresses, course_rows, next_id, outcome,
                 calls, lessons, listing, analyticsVars>>

\* CRUDEnrollment.delete: db.delete(enrollment); db.commit().  The DELETE
\* takes the lesson_progress rows of the enrollment with it; the counter is
\* written when the handler changed it.
delete_commit(p) ==
  /\ pc[p] = "delete_commit"
  /\ enrollments' = enrollments \ get(enrollments, session[p].enrollment_id)
  /\ lesson_progresses' =
       {r \in lesson_progresses : r.enrollment_id # session[p].enrollment_id}
  /\ course_rows' =
       IF session[p].course_changed
         THEN [course_rows EXCEPT ![session[p].course_id].total_enrollments =
                 session[p].total_enrollments]
         ELSE course_rows
  /\ Leave(p, "True", session[p].enrollment_id)
  /\ UNCHANGED <<next_id, calls, lessons, listing, analyticsVars>>

\* The caller of update_lesson_progress loads the enrollment it passes.
load_enrollment(p) ==
  /\ pc[p] = "idle"
  /\ calls > 0
  /\ calls' = calls - 1
  /\ \E e \in enrollments, lesson_id \in LessonIds, completed \in BOOLEAN,
        time_spent_minutes \in TimeSpent :
       session' = [session EXCEPT ![p] =
         [NoSession EXCEPT !.op = "progress", !.user_id = e.user_id,
                           !.course_id = e.course_id, !.enrollment_id = e.id,
                           !.lesson_id = lesson_id, !.completed = completed,
                           !.time_spent_minutes = time_spent_minutes,
                           !.enrollment = e, !.enrollment_loaded = e]]
  /\ pc' = [pc EXCEPT ![p] = "progress"]
  /\ UNCHANGED <<enrollments, lesson_progresses, course_rows, next_id, outcome,
                 lessons, listing, analyticsVars>>

\* datetime.utcnow() in a handler, at the resolution the model keeps of the
\* clock: the day, which Midnight advances ("set" is a time before the run).
utcnow == ToString(today)

StampCompletionAlways(completed_at, completed, now) ==
  IF completed THEN now ELSE completed_at

\* if completed and not progress.completed_at: progress.completed_at = now
StampCompletion(completed_at, completed, now) ==
  IF completed /\ completed_at = None THEN now ELSE completed_at

\* update_lesson_progress: get or create the LessonProgress; db.add(progress).
update_lesson_progress(p) ==
  /\ pc[p] = "progress"
  /\ LET s == session[p]
         found == get_lesson_progress(lesson_progresses, s.enrollment_id, s.lesson_id)
     IN IF found = {}
          THEN session' = [session EXCEPT
                 ![p].is_new = TRUE,
                 ![p].progress =
                   [enrollment_id |-> s.enrollment_id, lesson_id |-> s.lesson_id,
                    completed |-> s.completed,
                    completed_at |-> IF s.completed THEN utcnow ELSE None,
                    time_spent_minutes |->
                      IF s.time_spent_minutes = NoTime THEN 0 ELSE s.time_spent_minutes]]
          ELSE \E r \in found :
                 session' = [session EXCEPT
                   ![p].is_new = FALSE,
                   ![p].progress_loaded = r,
                   ![p].progress =
                     [r EXCEPT
                        !.completed = s.completed,
                        !.time_spent_minutes =
                          IF s.time_spent_minutes # NoTime
                            THEN @ + s.time_spent_minutes ELSE @,
                        !.completed_at =
                          StampCompletion(@, s.completed, utcnow)]]
  /\ pc' = [pc EXCEPT ![p] = "aggregate"]
  /\ UNCHANGED <<enrollments, lesson_progresses, course_rows, next_id, outcome,
                 calls, lessons, listing, analyticsVars>>

\* update_lesson_progress: the two counts (the session does not autoflush, so
\* they see committed rows only), update_progress, the time total and
\* last_lesson_id.
update_lesson_progress_aggregate(p) ==
  /\ pc[p] = "aggregate"
  /\ LET s == session[p]
         total_lessons == TotalLessons(s.course_id)
         completed_lessons == CompletedLessons(lesson_progresses, s.enrollment_id)
         e == update_progress(s.enrollment, total_lessons, completed_lessons)
     IN session' = [session EXCEPT ![p].enrollment =
          [e EXCEPT !.total_time_spent_minutes = AddTime(@, s.time_spent_minutes),
                    !.last_lesson_id = s.lesson_id]]
  /\ pc' = [pc EXCEPT ![p] = "progress_commit"]
  /\ UNCHANGED <<enrollments, lesson_progresses, course_rows, next_id, outcome,
                 calls, lessons, listing, analyticsVars>>

\* What the flush of update_lesson_progress raises: the UPDATE of an
\* enrollment or lesson_progress row that is gone matches no row, the INSERT
\* of a second lesson_progress row of the pair violates
\* unique_enrollment_lesson_progress.
ProgressFlushError(p) ==
  LET s == session[p]
      found == get_lesson_progress(lesson_progresses, s.enrollment_id, s.lesson_id)
  IN IF get(enrollments, s.enrollment_id) = {} THEN "StaleDataError"
     ELSE IF s.is_new /\ found # {} THEN "IntegrityError"
     ELSE IF ~s.is_new /\ found = {} THEN "StaleDataError"
     ELSE "none"

\* update_lesson_progress: db.add(enrollment); db.commit().
update_lesson_progress_commit(p) ==
  /\ pc[p] = "progress_commit"
  /\ LET s == session[p]
         err == ProgressFlushError(p)
     IN IF err # "none"
          THEN /\ Leave(p, err, s.enrollment_id)
               /\ UNCHANGED <<enrollments, lesson_progresses>>
          ELSE /\ enrollments' =
                    {IF e.id = s.enrollment_id
                       THEN Flushed(e, s.enrollment, s.enrollment_loaded) ELSE e
                       : e \in enrollments}
               /\ lesson_progresses' =
                    IF s.is_new
                      THEN lesson_progresses \cup {s.progress}
                      ELSE {IF r.enrollment_id = s.enrollment_id
                               /\ r.lesson_id = s.lesson_id
                              THEN Flushed(r, s.progress, s.progress_loaded) ELSE r
                              : r \in lesson_progresses}
               /\ Leave(p, "updated", s.enrollment_id)
  /\ UNCHANGED <<course_rows, next_id, calls, lessons, listing, analyticsVars>>

\* EnrollmentUpdate as obj_in.dict(exclude_unset=True): the fields the caller
\* set, progress_percentage in hundredths within [0, 100].
EnrollmentUpdate ==
  {[completed |-> c] : c \in BOOLEAN}
  \cup {[progress_percentage |-> v] : v \in {0, 5000, 10000}}
  \cup {[completed |-> c, progress_percentage |-> v] :
          c \in BOOLEAN, v \in {0, 5000, 10000}}
  \cup {[last_accessed_at |-> "set"]}

\* for field in update_data: setattr(db_obj, field, update_data[field])
Setattr(db_obj, update_data) ==
  [f \in DOMAIN db_obj |->
     IF f \in DOMAIN update_data THEN update_data[f] ELSE db_obj[f]]

\* CRUDEnrollment.update on an enrollment the caller loaded: progress of 100
\* or more also sets completed and completed_at; the fields are assigned and
\* committed.
update(p) ==
  /\ pc[p] = "idle"
  /\ calls > 0
  /\ calls' = calls - 1
  /\ \E db_obj \in enrollments, obj_in \in EnrollmentUpdate :
       LET done == /\ "progress_percentage" \in DOMAIN obj_in
                   /\ obj_in.progress_percentage >= 10000
           update_data ==
             IF done
               THEN [f \in DOMAIN obj_in \cup {"completed", "completed_at"} |->
                       IF f = "completed" THEN TRUE
                       ELSE IF f = "completed_at" THEN "set" ELSE obj_in[f]]
               ELSE obj_in
       IN /\ enrollments' = (enrollments \ {db_obj}) \cup {Setattr(db_obj, update_data)}
          /\ Answer(p, db_obj.user_id, db_obj.course_id, "saved", db_obj.id)
  /\ UNCHANGED <<lesson_progresses, course_rows, next_id, lessons, listing, analyticsVars>>

\* CRUDEnrollment.record_access: last_accessed_at of the enrollment is set
\* and committed; None when there is no such enrollment.
record_access(p) ==
  /\ pc[p] = "idle"
  /\ calls > 0
  /\ calls' = calls - 1
  /\ \E enrollment_id \in {e.id : e \in enrollments} \cup {0} :
       LET found == get(enrollments, enrollment_id)
       IN IF found = {}
            THEN Leave(p, "None", enrollment_id)
            ELSE \E e \in found : Answer(p, e.user_id, e.course_id, "accessed", e.id)
  /\ UNCHANGED <<enrollments, lesson_progresses, course_rows, next_id, lessons, listing, analyticsVars>>

\* CRUDLesson.update on a lesson the caller loaded, with LessonUpdate's
\* is_published set: the field is assigned and committed.
lesson_update(p) ==
  /\ pc[p] = "idle"
  /\ calls > 0
  /\ calls' = calls - 1
  /\ \E db_obj \in lessons, is_published \in BOOLEAN :
       /\ lessons' = (lessons \ {db_obj})
                       \cup {[db_obj EXCEPT !.is_published = is_published]}
       /\ Answer(p, "u1", db_obj.course_id, "lesson_saved", 0)
  /\ UNCHANGED <<enrollments, lesson_progresses, course_rows, next_id, listing, analyticsVars>>

\* CRUDLesson.delete: db.query(Lesson).get(lesson_id); db.delete(obj);
\* db.commit().  lesson_progress has no foreign key to lessons, so its rows
\* stay.  db.delete(None) raises UnmappedInstanceError.
lesson_delete(p) ==
  /\ pc[p] = "idle"
  /\ calls > 0
  /\ calls' = calls - 1
  /\ \E lesson_id \in LessonIds :
       LET obj == {l \in lessons : l.id = lesson_id}
       IN IF obj = {}
            THEN /\ Answer(p, "u1", "c1", "UnmappedInstanceError", 0)
                 /\ UNCHANGED lessons
            ELSE /\ lessons' = lessons \ obj
                 /\ \E l \in obj : Answer(p, "u1", l.course_id, "lesson_deleted", 0)
  /\ UNCHANGED <<enrollments, lesson_progresses, course_rows, next_id, listing, analyticsVars>>

\* The query parameters of get_courses that decide visibility: published
\* ("true", "false" or absent) and instructor_id (absent or an instructor).
PublishedParams == {None, "true", "false"}

\* get_courses: the filters built from the caller and the parameters.
Filters(current_user, published, instructor_id) ==
  IF current_user # None /\ Role(current_user) = "instructor"
    THEN [kind |-> IF instructor_id # None THEN "instructor_id"
                   ELSE "current_instructor_id",
          instructor_id |-> IF instructor_id # None THEN instructor_id
                            ELSE current_user,
          published |-> published]
    ELSE [kind |-> IF instructor_id # None THEN "instructor_id" ELSE "none",
          instructor_id |-> instructor_id,
          published |-> "true"]

\* CRUDCourse.get_multi: the courses the query selects (skip and limit at
\* their defaults, so the page holds all of them).
get_multi(rows, filters) ==
  {c \in DOMAIN rows :
     IF filters.kind = "current_instructor_id"
       THEN IF filters.published = None
              THEN rows[c].instructor_id = filters.instructor_id \/ rows[c].published
            ELSE IF filters.published = "true"
              THEN /\ rows[c].instructor_id = filters.instructor_id \/ rows[c].published
                   /\ rows[c].published
            ELSE rows[c].instructor_id = filters.instructor_id /\ ~rows[c].published
       ELSE /\ filters.published # None => rows[c].published = (filters.published = "true")
            /\ filters.kind = "instructor_id" =>
                 rows[c].instructor_id = filters.instructor_id}

\* get_courses: GET /courses/ by a guest, a student, an instructor or an admin.
get_courses(p) ==
  /\ pc[p] = "idle"
  /\ calls > 0
  /\ calls' = calls - 1
  /\ \E current_user \in {None} \cup Students \cup Instructors \cup Admins,
        published \in PublishedParams, instructor_id \in {None} \cup Instructors :
       listing' = [current_user |-> current_user, published |-> published,
                   instructor_id |-> instructor_id,
                   items |-> get_multi(course_rows,
                                       Filters(current_user, published, instructor_id))]
  /\ UNCHANGED <<enrollments, lesson_progresses, course_rows, next_id, lessons,
                 session, outcome, pc, analyticsVars>>

Enroller(p) ==
  \/ enroll_in_course(p)
  \/ create(p)
  \/ create_commit(p)
  \/ create_course(p)
  \/ create_course_commit(p)

Unenroller(p) ==
  \/ delete(p)
  \/ delete_course(p)
  \/ delete_commit(p)

ProgressUpdater(p) ==
  \/ load_enrollment(p)
  \/ update_lesson_progress(p)
  \/ update_lesson_progress_aggregate(p)
  \/ update_lesson_progress_commit(p)

\* The course service's tables when the requests of a run start to arrive:
\* nobody is enrolled, or u1 is enrolled in c1.
CourseSeeds ==
  {[enrollments |-> {}, lesson_progresses |-> {}, total |-> 0, next_id |-> 1],
   [enrollments |-> {Enrollment(1, "u1", "c1")}, lesson_progresses |-> {},
    total |-> 1, next_id |-> 2]}

\* The tables after u1 enrolled in c1 and three progress calls: l1 completed,
\* l2 completed, l2 completed again (the call that brings the aggregate to 100).
CompletedSeed ==
  [enrollments |->
     {[Enrollment(1, "u1", "c1") EXCEPT !.progress_percentage = 10000,
                                        !.completed = TRUE,
                                        !.completed_at = "set",
                                        !.last_lesson_id = "l2"]},
   lesson_progresses |->
     {[NoProgress EXCEPT !.enrollment_id = 1, !.lesson_id = l, !.completed = TRUE,
                         !.completed_at = "set"] : l \in LessonIds},
   total |-> 1, next_id |-> 2]

CourseInit(seeds) ==
  /\ \E seed \in seeds :
       /\ enrollments = seed.enrollments
       /\ lesson_progresses = seed.lesson_progresses
       /\ course_rows = [c \in Courses |->
                           Course(c, TRUE, IF c = "c1" THEN seed.total ELSE 0)]
       /\ next_id = seed.next_id
  /\ lessons = Lessons
  /\ listing = NoListing
  /\ session = [p \in Workers |-> NoSession]
  /\ outcome = Outcome("none", 0, "u1", "c1")

\* States the service may be in when the requests of a run start to arrive.
\* The tables: empty; after one view of c1 on day 1; after two views of c1 and
\* a view of c2.  The cache: cold, or (in the last case) warm with the answers
\* of an earlier get_course_metrics(c1) and get_top_courses(limit=1).
SeedEvent(course_id) == [NoEvent EXCEPT !.course_id = course_id]
SeedRow(course_id, views) ==
  [course_id |-> course_id, metric_date |-> 1, views_count |-> views,
   enrollments_count |-> 0]
Cold == [key \in CacheKeys |-> Miss]
Warm(rows) ==
  [key \in CacheKeys |->
     IF key = top_courses_key
       THEN Entry(CHOOSE a \in TopCoursesQuery(rows, 1) : TRUE)
       ELSE IF key = course_metrics_key("c1")
         THEN Entry(CHOOSE a \in CourseMetricsQuery(rows, "c1") : TRUE)
         ELSE Miss]
OneView == [events |-> SetToBag({SeedEvent("c1")}),
            metrics |-> SetToBag({SeedRow("c1", 1)})]
ThreeViews ==
  [events |-> SetToBag({SeedEvent("c1")}) (+) SetToBag({SeedEvent("c1")})
                (+) SetToBag({SeedEvent("c2")}),
   metrics |-> SetToBag({SeedRow("c1", 2), SeedRow("c2", 1)})]
Seeds ==
  {[events |-> EmptyBag, metrics |-> EmptyBag, cache |-> Cold, redis |-> r]
     : r \in {None, "client"}}
  \cup {[events |-> OneView.events, metrics |-> OneView.metrics,
         cache |-> Cold, redis |-> r] : r \in {None, "client"}}
  \cup {[events |-> ThreeViews.events, metrics |-> ThreeViews.metrics,
         cache |-> c, redis |-> "client"] : c \in {Cold, Warm(ThreeViews.metrics)}}

InitWith(n, seeds) ==
  /\ today = 1
  /\ \E seed \in seeds :
       /\ metrics = seed.metrics
       /\ events = seed.events
       /\ cache = seed.cache
       /\ redis_client = seed.redis
  /\ redis_up = TRUE
  /\ delete_errors = {}
  /\ calls = n
  /\ pc = [p \in Workers |-> "idle"]
  /\ req = [p \in Workers |-> NoReq]
  /\ db_event = [p \in Workers |-> NoEvent]
  /\ metric = [p \in Workers |-> NoMetric]
  /\ result = [p \in Workers |-> <<>>]
  /\ response = Response("none", NoReq, <<>>)

\* c1 has a row for day 1 and c2 has none.
Init ==
  /\ InitWith(MaxCalls, {seed \in Seeds : seed.metrics = OneView.metrics})
  /\ CourseInit({seed \in CourseSeeds : seed.enrollments = {}})

\* The event recorder under concurrent requests.
Next == (\E p \in Workers : Recorder(p)) \/ Midnight

Spec == Init /\ [][Next]_vars

\* Requests that do not overlap: each is served to its end before the next.
FirstWorker == CHOOSE p \in Workers : \A q \in Workers : p <= q

SeqNext ==
  \/ Recorder(FirstWorker)
  \/ Reader(FirstWorker)
  \/ Midnight
  \/ RedisOutage
  \/ Expire

InitSeq ==
  /\ InitWith(MaxSeqCalls, Seeds)
  /\ CourseInit({seed \in CourseSeeds : seed.enrollments = {}})

SpecSeq == InitSeq /\ [][SeqNext]_vars

\* The enrollment store under concurrent requests.
EnrollNext == \E p \in Workers : Enroller(p) \/ Unenroller(p) \/ ProgressUpdater(p)

InitEnroll ==
  /\ InitWith(MaxEnrollCalls, {seed \in Seeds : seed.metrics = EmptyBag /\ seed.redis = None})
  /\ CourseInit(CourseSeeds)

SpecEnroll == InitEnroll /\ [][EnrollNext]_vars

\* The enrollment store under requests that do not overlap.
EnrollSeqNext ==
  \/ Enroller(FirstWorker)
  \/ Unenroller(FirstWorker)
  \/ ProgressUpdater(FirstWorker)
  \/ update(FirstWorker)
  \/ record_access(FirstWorker)

InitEnrollSeq ==
  /\ InitWith(MaxEnrollSeqCalls,
              {seed \in Seeds : seed.metrics = EmptyBag /\ seed.redis = None})
  /\ CourseInit(CourseSeeds \cup {CompletedSeed})

SpecEnrollSeq == InitEnrollSeq /\ [][EnrollSeqNext]_vars

\* Progress updates while the course's lessons are unpublished, published
\* again or deleted; requests do not overlap.
LessonNext ==
  \/ ProgressUpdater(FirstWorker)
  \/ lesson_update(FirstWorker)
  \/ lesson_delete(FirstWorker)
  \/ Midnight

InitLesson ==
  /\ InitWith(MaxLessonCalls,
              {seed \in Seeds : seed.metrics = EmptyBag /\ seed.redis = None})
  /\ CourseInit({seed \in CourseSeeds : seed.enrollments # {}} \cup {CompletedSeed})

SpecLesson == InitLesson /\ [][LessonNext]_vars

\* The course catalogue and the enroll endpoint with every kind of caller;
\* the table courses holds c1 alone or c1 and c2, each published or not.
AccessNext ==
  \/ role_checker(FirstWorker)
  \/ Enroller(FirstWorker)
  \/ get_courses(FirstWorker)

InitAccess ==
  /\ InitWith(MaxAccessCalls,
              {seed \in Seeds : seed.metrics = EmptyBag /\ seed.redis = None})
  /\ enrollments = {}
  /\ lesson_progresses = {}
  /\ \E ids \in {{"c1"}, Courses} :
       \E published \in [ids -> BOOLEAN] :
         course_rows = [c \in ids |-> Course(c, published[c], 0)]
  /\ next_id = 1
  /\ lessons = Lessons
  /\ listing = NoListing
  /\ session = [p \in Workers |-> NoSession]
  /\ outcome = Outcome("none", 0, "u1", "c1")

SpecAccess == InitAccess /\ [][AccessNext]_vars

\* Reads of the metrics racing with the event recorder, Redis reachable.
RaceNext == \E p \in Workers : Recorder(p) \/ Reader(p)

InitRace ==
  /\ InitWith(MaxRaceCalls, {seed \in Seeds : seed.redis = "client"})
  /\ CourseInit({seed \in CourseSeeds : seed.enrollments = {}})

SpecRace == InitRace /\ [][RaceNext]_vars


\* ------------------------------------------------------------- claims
AllIdle == \A p \in Workers : pc[p] = "idle"

\* The committed events of a type in the bucket (course, day).
Recorded(course_id, day, event_type) ==
  LET es == {e \in BagToSet(events) : /\ e.course_id = course_id
                                      /\ e.day = day
                                      /\ e.event_type = event_type}
      RECURSIVE Count(_)
      Count(S) == IF S = {} THEN 0
                  ELSE LET e == CHOOSE x \in S : TRUE
                       IN CopiesIn(e, events) + Count(S \ {e})
  IN Count(es)

\* The counters of the bucket (course, day); 0 where it has no row.
ViewsOf(rows, course_id, day) ==
  SumOf(rows, MetricsFor(rows, course_id, day), "views")
EnrollmentsOf(rows, course_id, day) ==
  SumOf(rows, MetricsFor(rows, course_id, day), "enrollments")

\* Worker p's db.commit() returns in this step / raises in this step.
Commits(p) == pc[p] = "commit" /\ pc'[p] = "del_top"
CommitRaises(p) == pc[p] = "commit" /\ pc'[p] = "idle"
EventAdded(e) == CopiesIn(e, events') = CopiesIn(e, events) + 1

\* C1: once all concurrent record_event calls for a bucket have committed, the
\* row's views_count is the number of committed view events of the bucket and
\* its enrollments_count the number of committed enroll events.
C1_NoLostIncrement ==
  AllIdle =>
    \A c \in Courses, d \in Days :
      /\ ViewsOf(metrics, c, d) = Recorded(c, d, course_view)
      /\ EnrollmentsOf(metrics, c, d) = Recorded(c, d, course_enroll)

\* C2: in every committed state there is at most one CourseDailyMetric row
\* per (course_id, metric_date).
C2_OneRowPerCourseDay ==
  \A c \in Courses, d \in Days :
    /\ Cardinality(MetricsFor(metrics, c, d)) <= 1
    /\ \A r \in MetricsFor(metrics, c, d) : CopiesIn(r, metrics) = 1

\* Two creators of the same bucket met: one inserted the row, the other's
\* insert was rejected.
C2_Witness ==
  /\ response.status = "IntegrityError"
  /\ \E d \in Days : MetricsFor(metrics, response.req.course_id, d) # {}

\* C3: a record_event call that creates the day's row always commits its event
\* and goes on to return it, also when another call created the row meanwhile.
C3_ConflictRecovered ==
  [][\A p \in Workers :
       (pc[p] = "commit" /\ pc'[p] # "commit" /\ metric[p].is_new
          /\ RoleAccepted(db_event[p].user_role))
       => (Commits(p) /\ EventAdded(db_event[p]))]_vars

\* C4: db.commit() of record_event either makes both the event row and the
\* call's counter value visible, or raises and leaves both tables as they were.
C4_AtomicCommit ==
  [][\A p \in Workers :
       LET e == db_event[p]
           m == metric[p]
       IN /\ Commits(p) =>
               /\ EventAdded(e)
               /\ MetricsFor(metrics', m.course_id, m.metric_date) # {}
               /\ IF e.event_type = course_view
                    THEN ViewsOf(metrics', m.course_id, m.metric_date)
                           = m.views_count
                    ELSE EnrollmentsOf(metrics', m.course_id, m.metric_date)
                           = m.enrollments_count
          /\ CommitRaises(p) => (events' = events /\ metrics' = metrics)]_vars

\* Both calls are over, one of them failed on the constraint, and only the
\* other's event was added to the seeded one.
C4_Witness ==
  /\ AllIdle
  /\ calls = 0
  /\ response.status = "IntegrityError"
  /\ BagCardinality(events) = MaxCalls

\* C5: when requests do not overlap, a committed view event adds exactly 1 to
\* views_count of its bucket's row and a committed enroll event exactly 1 to
\* enrollments_count, a bucket's first event starting from 0 and 0; no other
\* counter of any bucket changes, and no other step changes the table.
C5_ExactIncrement ==
  [][/\ (\A q \in Workers : ~Commits(q)) => metrics' = metrics
     /\ \A p \in Workers :
       LET e == db_event[p]
           m == metric[p]
           dv(c, d) == IF c = m.course_id /\ d = m.metric_date
                          /\ e.event_type = course_view THEN 1 ELSE 0
           de(c, d) == IF c = m.course_id /\ d = m.metric_date
                          /\ e.event_type = course_enroll THEN 1 ELSE 0
       IN Commits(p) =>
            /\ EventAdded(e)
            /\ \A c \in Courses, d \in Days :
                 /\ ViewsOf(metrics', c, d) = ViewsOf(metrics, c, d) + dv(c, d)
                 /\ EnrollmentsOf(metrics', c, d)
                      = EnrollmentsOf(metrics, c, d) + de(c, d)]_vars

\* Two views and one enroll of a course on one day.
C5_Witness ==
  /\ AllIdle
  /\ \E c \in Courses, d \in Days :
       /\ Recorded(c, d, course_view) = 2
       /\ Recorded(c, d, course_enroll) = 1
       /\ ViewsOf(metrics, c, d) = 2
       /\ EnrollmentsOf(metrics, c, d) = 1

\* C6: for every role a token can carry, record_event commits its event and
\* increments the counter: the commit never raises.
C6_EveryRoleRecorded ==
  [][\A p \in Workers :
       (pc[p] = "commit" /\ pc'[p] # "commit"
          /\ db_event[p].user_role \in TokenRoles)
       => (Commits(p) /\ EventAdded(db_event[p]))]_vars


\* The cache cannot be used: no client was made at import, or the server is down.
Unavailable == redis_client = None \/ ~redis_up

\* The answers the store may give to the request r now.
StoreAnswers(r) ==
  IF r.op = "top_courses" THEN TopCoursesQuery(metrics, r.limit)
  ELSE CourseMetricsQuery(metrics, r.course_id)

\* C7: while the cache is unavailable, record_event still passes both
\* invalidations with its commit in place and returns its event, a read is
\* never answered at the lookup but queries the store and returns that
\* result, and no response is a cache error.
C7_CacheFailuresSwallowed ==
  [][Unavailable =>
       /\ response'.status # "RedisError"
       /\ calls' # calls => response' = response
       /\ \A p \in Workers :
            /\ (pc[p] = "del_top" /\ pc'[p] # "del_top") =>
                 /\ pc'[p] = "del_course"
                 /\ UNCHANGED <<events, metrics>>
            /\ (pc[p] = "del_course" /\ pc'[p] # "del_course") =>
                 /\ response' = Response("ok", req[p], <<db_event[p]>>)
                 /\ BagIn(db_event[p], events')
                 /\ UNCHANGED <<events, metrics>>
            /\ (pc[p] = "set" /\ pc'[p] # "set") =>
                 /\ response' = Response("miss", req[p], result[p])
                 /\ result[p] \in StoreAnswers(req[p])]_vars

\* record_event answered with its event although a delete_cache call failed.
C7_Witness ==
  /\ response.status = "ok"
  /\ delete_errors # {}
  /\ BagIn(response.body[1], events)

\* What is cached under the key is an answer of the store to a request that
\* is cached under it (for top_courses: with any limit), or nothing.
Fresh(key) ==
  cache[key].present =>
    IF key = top_courses_key
      THEN \E limit \in 1..(MaxLimit + Cardinality(Courses)) :
             cache[key].data \in TopCoursesQuery(metrics, limit)
      ELSE \E c \in Courses :
             /\ key = course_metrics_key(c)
             /\ cache[key].data \in CourseMetricsQuery(metrics, c)

\* C8: whatever earlier get_top_courses calls left in the cache, the answer
\* of get_top_courses(limit) is an answer of the store for that limit: the
\* min(limit, number of courses with metrics) courses with the most views,
\* by total_views descending.
C8_TopCoursesByLimit ==
  [][(/\ response' # response
      /\ response'.req.op = "top_courses"
      /\ response'.status \in {"hit", "miss"}
      /\ Fresh(top_courses_key))
     => response'.body \in TopCoursesQuery(metrics', response'.req.limit)]_vars

C10_OneEnrollmentPerUserCourse ==
  \A user_id \in Students, course_id \in Courses :
    Cardinality(get_by_user_and_course(enrollments, user_id, course_id)) <= 1

\* Two enroll calls of one student for one course raced past both checks:
\* the second INSERT was rejected and the winner's row is in the table.
C10_Witness ==
  /\ outcome.status = "500"
  /\ calls = 0
  /\ \A p \in Workers : pc[p] = "idle"
  /\ \E user_id \in Students, course_id \in Courses :
       Cardinality(get_by_user_and_course(enrollments, user_id, course_id)) = 1

\* The answers of enroll_in_course.
EnrollAnswers == {"existing", "created", "500"}

\* The Enrollment rows of the pair an answer is about.
AnsweredRows(rows, answer) ==
  {e \in rows : e.user_id = answer.user_id /\ e.course_id = answer.course_id}

\* C11: every enroll call, concurrent or not, answers with the one Enrollment
\* row of its (user, course) and none answers with an error: the loser of
\* the insert race returns the winner's row.
C11_EnrollReturnsWinner ==
  [][(outcome' # outcome /\ outcome'.status \in EnrollAnswers)
     => /\ outcome'.status # "500"
        /\ \A e \in AnsweredRows(enrollments', outcome') :
             e.id = outcome'.enrollment_id]_vars

\* C12: an enroll call for a pair that has an Enrollment never goes on to
\* create: it answers with that row, and the step changes no row of any
\* table, creates none and leaves the course's counter alone.
C12_EnrollIdempotent ==
  [][\A p \in Workers :
       /\ (pc[p] = "idle" /\ pc'[p] = "create") =>
            AnsweredRows(enrollments, session'[p]) = {}
       /\ (calls' # calls /\ pc' = pc /\ outcome'.status = "existing") =>
            /\ \E e \in AnsweredRows(enrollments, outcome') :
                 /\ e.id = outcome'.enrollment_id
                 /\ e \in enrollments'
            /\ UNCHANGED <<enrollments, lesson_progresses, course_rows, next_id>>]_vars

\* A second enroll was answered with the row of the pair, which carries the
\* time a progress update recorded in between.
C12_Witness ==
  /\ outcome.status = "existing"
  /\ next_id = 2
  /\ \E e \in AnsweredRows(enrollments, outcome) :
       /\ e.id = outcome.enrollment_id
       /\ e.total_time_spent_minutes > 0
       /\ e.last_lesson_id # None
       /\ course_rows[e.course_id].total_enrollments = 1

\* C13: the commit that makes a new Enrollment row visible also raises the
\* total_enrollments of its course by one: no committed state holds the row
\* without the increment.
C13_RowAndCounterTogether ==
  [][\A e \in enrollments' \ enrollments :
       course_rows'[e.course_id].total_enrollments =
         course_rows[e.course_id].total_enrollments + 1]_vars

\* The update_lesson_progress call of worker p commits.
ProgressCommits(p) ==
  /\ pc[p] = "progress_commit"
  /\ pc'[p] = "idle"
  /\ outcome'.status = "updated"

\* The aggregate of the enrollment agrees with its LessonProgress rows.
AggregateOf(e, rows) ==
  LET pct == Percentage(CompletedLessons(rows, e.id), TotalLessons(e.course_id))
  IN /\ e.progress_percentage = pct
     /\ e.completed = (pct >= 10000)

\* C14: after every update_lesson_progress call on an enrollment whose
\* course has published lessons, progress_percentage is
\* round(100 * completed_lessons / total_lessons, 2) with the row this very
\* call wrote counted, and completed says whether that is 100.
C14_ProgressCountsThisCall ==
  [][\A p \in Workers :
       (ProgressCommits(p) /\ TotalLessons(session[p].course_id) > 0) =>
         \A e \in get(enrollments', session[p].enrollment_id) :
           AggregateOf(e, lesson_progresses')]_vars

\* Every published lesson of the enrollment's course has a completed
\* LessonProgress row of the enrollment.
AllLessonsCompleted(e, rows) ==
  /\ TotalLessons(e.course_id) > 0
  /\ \A l \in Lessons :
       (l.course_id = e.course_id /\ l.is_published) =>
         \E r \in get_lesson_progress(rows, e.id, l.id) : r.completed

\* C15: once the update_lesson_progress calls have marked every published
\* lesson of the course completed, the last call included, the enrollment
\* has progress_percentage 100.0, completed true and completed_at set.
C15_AllLessonsDoneIsCompleted ==
  AllIdle =>
    \A e \in enrollments :
      AllLessonsCompleted(e, lesson_progresses) =>
        /\ e.progress_percentage = 10000
        /\ e.completed
        /\ e.completed_at # None

\* The sum of time_spent_minutes over a set of LessonProgress rows.
RECURSIVE SumTime(_)
SumTime(rows) ==
  IF rows = {} THEN 0
  ELSE LET r == CHOOSE x \in rows : TRUE
       IN r.time_spent_minutes + SumTime(rows \ {r})

ProgressesOf(rows, enrollment_id) == {r \in rows : r.enrollment_id = enrollment_id}

\* C16: when update_lesson_progress calls do not overlap, the
\* total_time_spent_minutes of every enrollment is the sum of
\* time_spent_minutes over its LessonProgress rows.
C16_TimeInSync ==
  \A e \in enrollments :
    e.total_time_spent_minutes = SumTime(ProgressesOf(lesson_progresses, e.id))

\* Two calls added time to the same lesson row of an enrollment.
C16_Witness ==
  /\ AllIdle
  /\ \E e \in enrollments :
       /\ e.total_time_spent_minutes = 2
       /\ \E r \in ProgressesOf(lesson_progresses, e.id) : r.time_spent_minutes = 2

\* C17: when update_lesson_progress calls of one enrollment overlap, no
\* call's time is lost: once all have committed the enrollment's
\* total_time_spent_minutes is again the sum over its LessonProgress rows.
C17_NoLostTime ==
  AllIdle =>
    \A e \in enrollments :
      e.total_time_spent_minutes = SumTime(ProgressesOf(lesson_progresses, e.id))

\* Another request committed a change of the enrollment after worker p
\* loaded it.
Overlapped(p) ==
  get(enrollments, session[p].enrollment_id) # {session[p].enrollment_loaded}

\* C18: when two update_lesson_progress calls that complete different
\* lessons of one enrollment overlap, the aggregate the later commit leaves
\* reflects both: with every published lesson completed it is 100.0 and
\* completed.
C18_AggregateNotClobbered ==
  [][\A p \in Workers :
       (ProgressCommits(p) /\ Overlapped(p)) =>
         \A e \in get(enrollments', session[p].enrollment_id) :
           AllLessonsCompleted(e, lesson_progresses') =>
             /\ e.progress_percentage = 10000
             /\ e.completed]_vars

\* C19: when update_lesson_progress un-completes a completed lesson of a
\* Completed enrollment, that same call brings progress_percentage below
\* 100, sets completed back to false and clears completed_at.
C19_UncompleteReopens ==
  [][\A p \in Workers :
       (/\ ProgressCommits(p)
        /\ session[p].enrollment_loaded.completed
        /\ ~session[p].completed
        /\ ~session[p].is_new
        /\ session[p].progress_loaded.completed
        /\ \E l \in Lessons : /\ l.id = session[p].lesson_id
                              /\ l.course_id = session[p].course_id
                              /\ l.is_published)
       => \A e \in get(enrollments', session[p].enrollment_id) :
            /\ e.progress_percentage < 10000
            /\ ~e.completed
            /\ e.completed_at = None]_vars

\* C20: for every Enrollment, after any sequence of enroll,
\* update_lesson_progress, record_access and CRUDEnrollment.update calls,
\* completed holds exactly when progress_percentage is 100 or more, and
\* completed_at is set exactly when completed holds.
C20_CompletedIffFull ==
  \A e \in enrollments :
    /\ e.completed <=> (e.progress_percentage >= 10000)
    /\ (e.completed_at # None) <=> e.completed

\* C21: in every reachable state each enrollment's progress_percentage is
\* within [0, 100], also after lessons of the course were deleted or
\* unpublished between progress updates and after progress was recorded for
\* a lesson id that is not a published lesson of the course.
C21_ProgressWithinRange ==
  \A e \in enrollments :
    e.progress_percentage >= 0 /\ e.progress_percentage <= 10000

\* C22: LessonProgress.completed flips from false to true only: once a row's
\* completed is true, no later update_lesson_progress call makes it false.
C22_CompletedMonotonic ==
  [][\A r \in lesson_progresses :
       r.completed =>
         \A after \in get_lesson_progress(lesson_progresses', r.enrollment_id,
                                          r.lesson_id) : after.completed]_vars

\* C23: LessonProgress.completed_at is set once: a row recorded as completed
\* has it, and once it is set no later update_lesson_progress call (repeated
\* completion, un-completion, re-completion) changes its value.
C23_CompletedAtSetOnce ==
  [][/\ \A r \in lesson_progresses' : r.completed => r.completed_at # None
     /\ \A r \in lesson_progresses :
          r.completed_at # None =>
            \A after \in get_lesson_progress(lesson_progresses', r.enrollment_id,
                                             r.lesson_id) :
              after.completed_at = r.completed_at]_vars

\* A lesson completed by one request was un-completed by a request of a
\* later day.
C23_Witness ==
  /\ AllIdle
  /\ outcome.status = "updated"
  /\ \E r \in lesson_progresses :
       /\ r.completed_at \notin {None, "set", utcnow}
       /\ ~r.completed

\* C24: update_lesson_progress for an enrollment that does not exist, or for
\* a lesson_id that is not an existing lesson, ends in a not-found error and
\* mutates nothing: no LessonProgress row is created or changed and the
\* enrollment keeps its values.
C24_NotFoundMutatesNothing ==
  [][\A p \in Workers :
       (/\ pc[p] = "progress_commit"
        /\ pc'[p] = "idle"
        /\ \/ get(enrollments, session[p].enrollment_id) = {}
           \/ session[p].lesson_id \notin {l.id : l \in lessons})
       => /\ outcome'.status = "NotFound"
          /\ UNCHANGED <<enrollments, lesson_progresses>>]_vars

\* C25: when the enrollment's course has no published lesson,
\* update_lesson_progress leaves progress_percentage, completed and
\* completed_at of the Enrollment as they were, while the LessonProgress row,
\* total_time_spent_minutes and last_lesson_id are still written.
C25_NoLessonsKeepsAggregate ==
  [][\A p \in Workers :
       (ProgressCommits(p) /\ TotalLessons(session[p].course_id) = 0) =>
         LET s == session[p]
         IN /\ \A e \in get(enrollments, s.enrollment_id) :
                 \E after \in get(enrollments', s.enrollment_id) :
                   /\ after.progress_percentage = e.progress_percentage
                   /\ after.completed = e.completed
                   /\ after.completed_at = e.completed_at
                   /\ after.last_lesson_id = s.lesson_id
                   /\ after.total_time_spent_minutes =
                        e.total_time_spent_minutes
                          + (IF s.time_spent_minutes = NoTime
                               THEN 0 ELSE s.time_spent_minutes)
            /\ \E r \in get_lesson_progress(lesson_progresses', s.enrollment_id,
                                            s.lesson_id) :
                 r.completed = s.completed]_vars

\* A Completed enrollment whose course lost its published lessons had a
\* lesson un-completed and is still Completed at 100.
C25_Witness ==
  /\ AllIdle
  /\ outcome.status = "updated"
  /\ \E e \in enrollments :
       /\ TotalLessons(e.course_id) = 0
       /\ e.progress_percentage = 10000
       /\ e.completed
       /\ e.last_lesson_id = "l1"
       /\ \E r \in get_lesson_progress(lesson_progresses, e.id, "l1") : ~r.completed

\* C26: for every caller (guest, student, instructor) and every combination
\* of the published and instructor_id filters, get_courses returns an
\* unpublished course only to the instructor who owns it.
C26_UnpublishedOnlyToOwner ==
  \A c \in listing.items :
    ~course_rows[c].published => listing.current_user = course_rows[c].instructor_id

\* C27: the enroll endpoint creates or returns an Enrollment only when the
\* course exists and is published or the requester is its owning instructor
\* or an admin: a request for a missing course ends in 404 and a student's
\* request for an unpublished course in 403, both with no Enrollment row
\* created and total_enrollments unchanged, while the owning instructor of an
\* unpublished course can enroll in it.
C27_EnrollPrecondition ==
  [][\A p \in Workers :
       (pc'[p] = "idle" /\ outcome' # outcome) =>
         LET o == outcome'
             missing == o.course_id \notin DOMAIN course_rows
             owner == ~missing /\ (o.user_id = course_rows[o.course_id].instructor_id
                                     \/ Role(o.user_id) = "admin")
         IN /\ missing => o.status = "404"
            /\ (~missing /\ ~course_rows[o.course_id].published
                  /\ Role(o.user_id) = "student") => o.status = "403"
            /\ o.status \in {"403", "404"} => UNCHANGED <<enrollments, course_rows>>
            /\ (~missing /\ ~course_rows[o.course_id].published /\ owner)
                 => o.status \in {"existing", "created"}
            /\ o.status \in {"existing", "created"}
                 => ~missing /\ (course_rows[o.course_id].published \/ owner)]_vars

\* C28: CRUDEnrollment.delete of an existing enrollment removes the Enrollment
\* with all of its LessonProgress rows and decrements the course's
\* total_enrollments by one but never below 0, all in one commit; for an
\* unknown enrollment_id it returns False and changes no row.
C28_DeleteCascades ==
  [][\A p \in Workers :
       LET id == session[p].enrollment_id
           c == session[p].course_id
           total == course_rows[c].total_enrollments
       IN /\ (pc[p] = "delete_commit" /\ pc'[p] = "idle"
                /\ \E e \in enrollments : e.id = id) =>
               /\ outcome'.status = "True"
               /\ enrollments' = {e \in enrollments : e.id # id}
               /\ lesson_progresses' =
                    {r \in lesson_progresses : r.enrollment_id # id}
               /\ course_rows' =
                    [course_rows EXCEPT
                       ![c].total_enrollments = IF total > 0 THEN total - 1 ELSE 0]
          /\ (pc'[p] \in {"delete_course", "delete_commit"}) =>
               UNCHANGED <<enrollments, lesson_progresses, course_rows>>
          /\ (pc[p] = "idle" /\ pc'[p] = "idle" /\ calls' # calls
                /\ outcome'.status = "False") =>
               /\ UNCHANGED <<enrollments, lesson_progresses, course_rows>>
               /\ ~\E e \in enrollments : e.id = outcome'.enrollment_id
          /\ (pc[p] = "idle" /\ pc'[p] = "delete_course") =>
               \E e \in enrollments : e.id = session'[p].enrollment_id]_vars

\* The only enrollment of c1, with its lesson rows, was deleted: no row of
\* either table is left and the counter is back at 0.
C28_Witness ==
  /\ AllIdle
  /\ outcome.status = "True"
  /\ outcome.enrollment_id = 1
  /\ enrollments = {}
  /\ lesson_progresses = {}
  /\ course_rows["c1"].total_enrollments = 0

\* C29: after any interleaving of first-time enroll calls and unenroll calls
\* by different users on the same course has completed, the course's
\* total_enrollments equals the number of Enrollment rows of the course.
C29_CounterMatchesRows ==
  AllIdle =>
    \A c \in DOMAIN course_rows :
      course_rows[c].total_enrollments =
        Cardinality({e \in enrollments : e.course_id = c})

\* C30: under arbitrary interleaving of record_event with get_course_metrics
\* and get_top_courses, once no request is in flight (and no delete failed)
\* every entry cached under course_metrics:{course_id} or top_courses is what
\* the store query returns at that moment: a read that missed before an
\* event's commit leaves no pre-event result cached after the invalidation.
C30_NoStaleEntryAfterRace ==
  (AllIdle /\ delete_errors = {}) =>
    \A key \in CacheKeys : cache[key].present => Fresh(key)

====
